---- MODULE Spec2Model ----
(***************************************************************************)
(* Model of go-asynctask (src/async_task.go): one TaskStatus handle, the   *)
(* runner goroutine started by Start, a fixed set of caller goroutines     *)
(* that invoke State, Cancel, Wait and WaitWithTimeout on the handle, and  *)
(* the helper goroutine each WaitWithTimeout call spawns.                  *)
(*                                                                         *)
(* The fields state, result and err of TaskStatus are plain (unguarded)    *)
(* memory in the source: every read and every write of them is a step of   *)
(* its own, so that the interleavings of the unsynchronised check-then-    *)
(* write in finish and of the unsynchronised reads in Wait are behaviours  *)
(* of the model.  time.After(timeout) is a channel that becomes ready at   *)
(* a moment the goroutines do not control: the deadline branch of the      *)
(* select may be taken at any step while the caller is in the select.      *)
(***************************************************************************)
EXTENDS Naturals, FiniteSets, Sequences, TLC

\* ---------------------------------------------------------------- bounds
\* number of calls the caller goroutines make on the handle, all together
MaxCalls == 2

\* ------------------------------------------------------------- constants
StateRunning == "Running"
StateCompleted == "Completed"
StateFailed == "Failed"
StateCanceled == "Canceled"

States == {StateRunning, StateCompleted, StateFailed, StateCanceled}

\* an error interface value: the nil interface, a nil pointer of a pointer
\* typed error stored in the interface, a non-nil pointer error (errors.New),
\* a struct typed error, and the three sentinels (ErrPanic as wrapped by %w)
NilErr == "nil"
NilPtrErr == "nilPointerError"
PtrErr == "pointerError"
StructErr == "structError"
ErrPanic == "ErrPanic"
ErrTimeout == "ErrTimeout"
ErrCanceled == "ErrCanceled"

\* errors a user function can return
UserErrs == {NilErr, NilPtrErr, PtrErr, StructErr}

\* interface{} results: nil, and the value the user function returns
NilVal == "nil"
DoneVal == "Done"
UserVals == {DoneVal}

Callers == {"c1", "c2"}
Helpers == {"h1", "h2"}
Runner == "runner"
Procs == {Runner} \cup Callers \cup Helpers

\* the helper goroutine of a caller's WaitWithTimeout, and back
HelperOf(c) == IF c = "c1" THEN "h1" ELSE "h2"
CallerOf(h) == IF h = "h1" THEN "c1" ELSE "c2"

None == "none"
NoArgs == <<None, None, None>>
NoRet == <<None, None>>
NoOut == <<None, None, None>>

VARIABLES
    ctor,       \* which constructor built the handle: "Start" or "NewCompletedTask"
    state,      \* TaskStatus.state
    result,     \* TaskStatus.result
    err,        \* TaskStatus.err
    ctxDone,    \* the derived context has been cancelled
    cancelCalls,\* number of invocations of TaskStatus.cancelFunc
    wgCount,    \* counter of TaskStatus.waitGroup
    pc,         \* position of every goroutine
    fargs,      \* arguments of the finish call a goroutine is executing
    rres,       \* t.result as read by a goroutine evaluating "return t.result, t.err"
    taskOut,    \* what the user function did: NoOut, <<"return", v, e>> or a panic
    op,         \* the operation a caller is executing or executed last
    path,       \* the branch that operation took: "noop", "cancel" (Cancel found
                \* the handle running), "fast", "slow", "select", "ch", "timer"
                \* (the deadline branch), and "canceled" / "timeout" once the
                \* finish call of Cancel / of the deadline branch passed its check
    pre,        \* that operation began on a handle a deadline had finalized
    ret,        \* the pair that operation returned
    calls,      \* number of calls a caller has completed
    chClosed,   \* the channel ch of a caller's WaitWithTimeout has been closed
    winner,     \* arguments of the first finish call whose check passed
    crashed     \* a nil cancelFunc or nil waitGroup has been dereferenced

vars == <<ctor, state, result, err, ctxDone, cancelCalls, wgCount, pc, fargs, rres,
          taskOut, op, path, pre, ret, calls, chClosed, winner, crashed>>

handle == <<state, result, err>>
shared == <<ctor, ctxDone, cancelCalls, wgCount, crashed>>

\* ------------------------------------------------------------ operators
IsTerminalState(s) == s # StateRunning

\* reflect.ValueOf(err).IsNil(): defined for pointer kinds, panics for a struct
ReflectIsNil(e) ==
    IF e = StructErr THEN "panic"
    ELSE IF e = NilPtrErr THEN "true"
    ELSE "false"

\* the arguments of the finish call runAndTrackTask makes for an outcome of
\* the user function
RunnerFinishArgs(out) ==
    IF out[1] = "panic" THEN <<StateFailed, NilVal, ErrPanic>>
    ELSE IF out[3] = NilErr THEN <<StateCompleted, out[2], NilErr>>
    ELSE IF ReflectIsNil(out[3]) = "panic" THEN <<StateFailed, NilVal, ErrPanic>>
    ELSE IF ReflectIsNil(out[3]) = "true" THEN <<StateCompleted, out[2], NilErr>>
    ELSE <<StateFailed, out[2], out[3]>>

\* the handle as a deadline commit of WaitWithTimeout leaves it
TimeoutFinal == <<state, result, err>> = <<StateCanceled, NilVal, ErrTimeout>>

\* a caller may begin another call
MayCall(c) ==
    /\ pc[c] = "idle"
    /\ Cardinality({d \in Callers : pc[d] # "idle"}) + calls["c1"] + calls["c2"] < MaxCalls

\* ----------------------------------------------------------------- Init
StartHandle ==
    /\ ctor = "Start"
    /\ state = StateRunning
    /\ wgCount = 1
    /\ pc = [p \in Procs |-> IF p = Runner THEN "task" ELSE IF p \in Callers THEN "idle" ELSE "off"]

NewCompletedTask ==
    /\ ctor = "NewCompletedTask"
    /\ state = StateCompleted
    /\ wgCount = 0
    /\ pc = [p \in Procs |-> IF p = Runner THEN "absent" ELSE IF p \in Callers THEN "idle" ELSE "off"]

Init ==
    /\ StartHandle \/ NewCompletedTask
    /\ result = NilVal
    /\ err = NilErr
    /\ ctxDone = FALSE
    /\ cancelCalls = 0
    /\ fargs = [p \in {Runner} \cup Callers |-> NoArgs]
    /\ rres = [c \in Callers |-> None]
    /\ taskOut = NoOut
    /\ op = [c \in Callers |-> None]
    /\ path = [c \in Callers |-> None]
    /\ pre = [c \in Callers |-> FALSE]
    /\ ret = [c \in Callers |-> NoRet]
    /\ calls = [c \in Callers |-> 0]
    /\ chClosed = [c \in Callers |-> FALSE]
    /\ winner = NoArgs
    /\ crashed = FALSE

\* ------------------------------------------------------- user function
\* what a call of the user function can do: panic, or return (v, e)
TaskOutcomes ==
    {<<"panic", None, None>>} \cup {<<"return", v, e>> : v \in UserVals, e \in UserErrs}

\* runAndTrackTask up to its call of finish: the user function runs, then the
\* error check (or the recover handler) picks the arguments of finish
RunTask ==
    /\ pc[Runner] = "task"
    /\ \E out \in TaskOutcomes :
        /\ taskOut' = out
        /\ fargs' = [fargs EXCEPT ![Runner] = RunnerFinishArgs(out)]
    /\ pc' = [pc EXCEPT ![Runner] = "fin_check"]
    /\ UNCHANGED <<handle, shared, rres, op, path, pre, ret, calls, chClosed, winner>>

\* a runner that exits without record.waitGroup.Done()
WaitGroupDoneMissing ==
    /\ pc[Runner] = "wg_done"
    /\ pc' = [pc EXCEPT ![Runner] = "exited"]
    /\ UNCHANGED <<handle, shared, fargs, rres, taskOut, op, path, pre, ret, calls,
                   chClosed, winner>>

\* defer record.waitGroup.Done()
WaitGroupDone ==
    /\ pc[Runner] = "wg_done"
    /\ wgCount' = wgCount - 1
    /\ pc' = [pc EXCEPT ![Runner] = "exited"]
    /\ UNCHANGED <<handle, ctor, ctxDone, cancelCalls, crashed, fargs, rres, taskOut,
                   op, path, pre, ret, calls, chClosed, winner>>

\* --------------------------------------------------------------- finish
\* where a goroutine continues when its finish call returns
FinishReturnCancelWaits(p) ==
    /\ fargs' = [fargs EXCEPT ![p] = NoArgs]
    /\ IF p = Runner
       THEN pc' = [pc EXCEPT ![p] = "wg_done"] /\ UNCHANGED calls
       ELSE IF op[p] = "Cancel"
       THEN pc' = [pc EXCEPT ![p] = "wg_wait"] /\ UNCHANGED calls
       ELSE pc' = [pc EXCEPT ![p] = "ret_res"] /\ UNCHANGED calls

FinishReturn(p) ==
    /\ fargs' = [fargs EXCEPT ![p] = NoArgs]
    /\ IF p = Runner
       THEN pc' = [pc EXCEPT ![p] = "wg_done"] /\ UNCHANGED calls
       ELSE IF op[p] = "Cancel"
       THEN pc' = [pc EXCEPT ![p] = "idle"] /\ calls' = [calls EXCEPT ![p] = @ + 1]
       ELSE pc' = [pc EXCEPT ![p] = "ret_res"] /\ UNCHANGED calls

\* if !t.state.IsTerminalState()
FinishCheck(p) ==
    /\ pc[p] = "fin_check"
    /\ IF IsTerminalState(state)
       THEN FinishReturn(p) /\ UNCHANGED <<winner, path>>
       ELSE /\ pc' = [pc EXCEPT ![p] = "fin_state"]
            /\ winner' = IF winner = NoArgs THEN fargs[p] ELSE winner
            /\ path' = IF p \in Callers
                       THEN [path EXCEPT ![p] = IF @ = "timer" THEN "timeout" ELSE "canceled"]
                       ELSE path
            /\ UNCHANGED <<fargs, calls>>
    /\ UNCHANGED <<handle, shared, rres, taskOut, op, pre, ret, chClosed>>

\* t.state = state
FinishWriteState(p) ==
    /\ pc[p] = "fin_state"
    /\ state' = fargs[p][1]
    /\ pc' = [pc EXCEPT ![p] = "fin_result"]
    /\ UNCHANGED <<result, err, shared, fargs, rres, taskOut, op, path, pre, ret,
                   calls, chClosed, winner>>

\* t.result = result
FinishWriteResult(p) ==
    /\ pc[p] = "fin_result"
    /\ result' = fargs[p][2]
    /\ pc' = [pc EXCEPT ![p] = "fin_err"]
    /\ UNCHANGED <<state, err, shared, fargs, rres, taskOut, op, path, pre, ret,
                   calls, chClosed, winner>>

\* t.err = err
FinishWriteErr(p) ==
    /\ pc[p] = "fin_err"
    /\ err' = fargs[p][3]
    /\ FinishReturn(p)
    /\ UNCHANGED <<state, result, shared, rres, taskOut, op, path, pre, ret,
                   chClosed, winner>>

\* ---------------------------------------------------------------- State
CallState(c) ==
    /\ MayCall(c)
    /\ op' = [op EXCEPT ![c] = "State"]
    /\ pre' = [pre EXCEPT ![c] = TimeoutFinal]
    /\ path' = [path EXCEPT ![c] = None]
    /\ ret' = [ret EXCEPT ![c] = NoRet]
    /\ calls' = [calls EXCEPT ![c] = @ + 1]
    /\ UNCHANGED <<handle, shared, pc, fargs, rres, taskOut, chClosed, winner>>

\* --------------------------------------------------------------- Cancel
\* Cancel: the check of t.state; on a terminal handle the call returns at
\* once, on a running one t.cancelFunc() is invoked and finish(StateCanceled,
\* nil, ErrCanceled) is called.  cancelFunc touches only the context, which
\* no other step reads, so it is taken in the step of the check.
\* (CancelRunningNoFinish: a Cancel that triggers the context and returns
\* without calling finish.)
CancelRunningNoFinish(c) ==
    /\ ctxDone' = TRUE
    /\ cancelCalls' = cancelCalls + 1
    /\ UNCHANGED <<pc, fargs, crashed>>

CancelRunning(c) ==
    IF ctor = "NewCompletedTask"
    THEN /\ crashed' = TRUE
         /\ pc' = [pc EXCEPT ![c] = "crashed"]
         /\ UNCHANGED <<ctxDone, cancelCalls, fargs>>
    ELSE /\ ctxDone' = TRUE
         /\ cancelCalls' = cancelCalls + 1
         /\ fargs' = [fargs EXCEPT ![c] = <<StateCanceled, NilVal, ErrCanceled>>]
         /\ pc' = [pc EXCEPT ![c] = "fin_check"]
         /\ UNCHANGED crashed

CallCancelAlways(c) ==
    /\ MayCall(c)
    /\ op' = [op EXCEPT ![c] = "Cancel"]
    /\ pre' = [pre EXCEPT ![c] = TimeoutFinal]
    /\ ret' = [ret EXCEPT ![c] = NoRet]
    /\ path' = [path EXCEPT ![c] = "cancel"]
    /\ CancelRunning(c)
    /\ UNCHANGED calls
    /\ UNCHANGED <<handle, ctor, wgCount, rres, taskOut, chClosed, winner>>

CallCancel(c) ==
    /\ MayCall(c)
    /\ op' = [op EXCEPT ![c] = "Cancel"]
    /\ pre' = [pre EXCEPT ![c] = TimeoutFinal]
    /\ ret' = [ret EXCEPT ![c] = NoRet]
    /\ IF IsTerminalState(state)
       THEN /\ path' = [path EXCEPT ![c] = "noop"]
            /\ calls' = [calls EXCEPT ![c] = @ + 1]
            /\ UNCHANGED <<pc, ctxDone, cancelCalls, fargs, crashed>>
       ELSE /\ path' = [path EXCEPT ![c] = "cancel"]
            /\ CancelRunning(c)
            /\ UNCHANGED calls
    /\ UNCHANGED <<handle, ctor, wgCount, rres, taskOut, chClosed, winner>>

\* ----------------------------------------------------------------- Wait
\* Wait's check of t.state: the fast path, or the deferred cancelFunc and
\* the wait on the wait group
WaitEnterNoFastPath(p) ==
    /\ pc' = [pc EXCEPT ![p] = "wg_wait"]
    /\ path' = IF p \in Callers THEN [path EXCEPT ![p] = "slow"] ELSE path

WaitEnter(p) ==
    IF IsTerminalState(state)
    THEN /\ pc' = [pc EXCEPT ![p] = IF p \in Callers THEN "ret_res" ELSE "close_ch"]
         /\ path' = IF p \in Callers THEN [path EXCEPT ![p] = "fast"] ELSE path
    ELSE /\ pc' = [pc EXCEPT ![p] = "wg_wait"]
         /\ path' = IF p \in Callers THEN [path EXCEPT ![p] = "slow"] ELSE path

CallWait(c) ==
    /\ MayCall(c)
    /\ op' = [op EXCEPT ![c] = "Wait"]
    /\ pre' = [pre EXCEPT ![c] = TimeoutFinal]
    /\ ret' = [ret EXCEPT ![c] = NoRet]
    /\ WaitEnter(c)
    /\ UNCHANGED <<handle, shared, fargs, rres, taskOut, calls, chClosed, winner>>

\* the goroutine of WaitWithTimeout enters t.Wait().  It discards the pair
\* Wait returns, so its reads of t.result and t.err are not steps.
HelperWait(h) ==
    /\ pc[h] = "spawned"
    /\ WaitEnter(h)
    /\ UNCHANGED <<handle, shared, fargs, rres, taskOut, op, pre, ret, calls,
                   chClosed, winner>>

\* the deferred t.cancelFunc() of Wait's slow path
DeferredCancelTwice ==
    IF ctor = "NewCompletedTask"
    THEN crashed' = TRUE /\ UNCHANGED <<ctxDone, cancelCalls>>
    ELSE ctxDone' = TRUE /\ cancelCalls' = cancelCalls + 2 /\ UNCHANGED crashed

DeferredCancel ==
    IF ctor = "NewCompletedTask"
    THEN crashed' = TRUE /\ UNCHANGED <<ctxDone, cancelCalls>>
    ELSE ctxDone' = TRUE /\ cancelCalls' = cancelCalls + 1 /\ UNCHANGED crashed

\* a caller's t.waitGroup.Wait() returns once the counter is zero
WaitGroupWait(c) ==
    /\ pc[c] = "wg_wait"
    /\ IF ctor = "NewCompletedTask"
       THEN /\ crashed' = TRUE
            /\ pc' = [pc EXCEPT ![c] = "crashed"]
       ELSE /\ wgCount = 0
            /\ pc' = [pc EXCEPT ![c] = "ret_res"]
            /\ UNCHANGED crashed
    /\ UNCHANGED <<handle, ctor, ctxDone, cancelCalls, wgCount, fargs, rres, taskOut,
                   op, path, pre, ret, calls, chClosed, winner>>

\* the helper's t.waitGroup.Wait() returns; the deferred cancelFunc runs as
\* its Wait returns
HelperWaitGroupWaitNoWait(h) ==
    /\ pc[h] = "wg_wait"
    /\ DeferredCancel
    /\ pc' = [pc EXCEPT ![h] = IF ctor = "NewCompletedTask" THEN "crashed" ELSE "close_ch"]
    /\ UNCHANGED <<handle, ctor, wgCount, fargs, rres, taskOut, op, path, pre, ret,
                   calls, chClosed, winner>>

HelperWaitGroupWait(h) ==
    /\ pc[h] = "wg_wait"
    /\ ctor = "NewCompletedTask" \/ wgCount = 0
    /\ DeferredCancel
    /\ pc' = [pc EXCEPT ![h] = IF ctor = "NewCompletedTask" THEN "crashed" ELSE "close_ch"]
    /\ UNCHANGED <<handle, ctor, wgCount, fargs, rres, taskOut, op, path, pre, ret,
                   calls, chClosed, winner>>

\* "return t.result, t.err": the read of t.result
ReadResult(c) ==
    /\ pc[c] = "ret_res"
    /\ rres' = [rres EXCEPT ![c] = result]
    /\ pc' = [pc EXCEPT ![c] = "ret_err"]
    /\ UNCHANGED <<handle, shared, fargs, taskOut, op, path, pre, ret, calls,
                   chClosed, winner>>

\* "return t.result, t.err": the read of t.err; on Wait's slow path the
\* deferred cancelFunc runs; the call returns
ReadErr(c) ==
    /\ pc[c] = "ret_err"
    /\ rres' = [rres EXCEPT ![c] = None]
    /\ ret' = [ret EXCEPT ![c] = <<rres[c], err>>]
    /\ IF path[c] = "slow"
       THEN DeferredCancel
       ELSE UNCHANGED <<ctxDone, cancelCalls, crashed>>
    /\ pc' = [pc EXCEPT ![c] = "idle"]
    /\ calls' = [calls EXCEPT ![c] = @ + 1]
    /\ UNCHANGED <<handle, ctor, wgCount, fargs, taskOut, op, path, pre, chClosed, winner>>

\* ------------------------------------------------------ WaitWithTimeout
\* the check of t.state; on a running handle, make(ch) and the go statement
CallWaitWithTimeout(c) ==
    /\ MayCall(c)
    /\ op' = [op EXCEPT ![c] = "WaitWithTimeout"]
    /\ pre' = [pre EXCEPT ![c] = TimeoutFinal]
    /\ ret' = [ret EXCEPT ![c] = NoRet]
    /\ IF IsTerminalState(state)
       THEN /\ pc' = [pc EXCEPT ![c] = "ret_res"]
            /\ path' = [path EXCEPT ![c] = "fast"]
            /\ UNCHANGED chClosed
       ELSE /\ pc' = [pc EXCEPT ![c] = "select", ![HelperOf(c)] = "spawned"]
            /\ path' = [path EXCEPT ![c] = "select"]
            /\ chClosed' = [chClosed EXCEPT ![c] = FALSE]
    /\ UNCHANGED <<handle, shared, fargs, rres, taskOut, calls, winner>>

\* close(ch) in the goroutine of WaitWithTimeout; chClosed tells the select
\* of the call that made ch, and nothing once that call has left its select
CloseCh(h) ==
    /\ pc[h] = "close_ch"
    /\ chClosed' = [chClosed EXCEPT ![CallerOf(h)] = (pc[CallerOf(h)] = "select")]
    /\ pc' = [pc EXCEPT ![h] = "off"]
    /\ UNCHANGED <<handle, shared, fargs, rres, taskOut, op, path, pre, ret, calls, winner>>

\* select: case <-ch
SelectCh(c) ==
    /\ pc[c] = "select"
    /\ chClosed[c]
    /\ chClosed' = [chClosed EXCEPT ![c] = FALSE]
    /\ path' = [path EXCEPT ![c] = "ch"]
    /\ pc' = [pc EXCEPT ![c] = "ret_res"]
    /\ UNCHANGED <<handle, shared, fargs, rres, taskOut, op, pre, ret, calls, winner>>

\* select: case <-time.After(timeout), then the call of
\* finish(StateCanceled, nil, ErrTimeout)
SelectTimerCancels(c) ==
    /\ pc[c] = "select"
    /\ path' = [path EXCEPT ![c] = "timer"]
    /\ fargs' = [fargs EXCEPT ![c] = <<StateCanceled, NilVal, ErrTimeout>>]
    /\ pc' = [pc EXCEPT ![c] = "fin_check"]
    /\ ctxDone' = TRUE
    /\ cancelCalls' = cancelCalls + 1
    /\ UNCHANGED <<handle, ctor, wgCount, crashed, rres, taskOut, op, pre, ret, calls,
                   chClosed, winner>>

SelectTimer(c) ==
    /\ pc[c] = "select"
    /\ path' = [path EXCEPT ![c] = "timer"]
    /\ fargs' = [fargs EXCEPT ![c] = <<StateCanceled, NilVal, ErrTimeout>>]
    /\ pc' = [pc EXCEPT ![c] = "fin_check"]
    /\ UNCHANGED <<handle, shared, rres, taskOut, op, pre, ret, calls, chClosed, winner>>

\* ------------------------------------------------------- specification
Next ==
    \/ RunTask
    \/ WaitGroupDone
    \/ \E p \in {Runner} \cup Callers : FinishCheck(p)
    \/ \E p \in {Runner} \cup Callers : FinishWriteState(p)
    \/ \E p \in {Runner} \cup Callers : FinishWriteResult(p)
    \/ \E p \in {Runner} \cup Callers : FinishWriteErr(p)
    \/ \E c \in Callers : CallState(c)
    \/ \E c \in Callers : CallCancel(c)
    \/ \E c \in Callers : CallWait(c)
    \/ \E h \in Helpers : HelperWait(h)
    \/ \E c \in Callers : WaitGroupWait(c)
    \/ \E h \in Helpers : HelperWaitGroupWait(h)
    \/ \E c \in Callers : ReadResult(c)
    \/ \E c \in Callers : ReadErr(c)
    \/ \E c \in Callers : CallWaitWithTimeout(c)
    \/ \E h \in Helpers : CloseCh(h)
    \/ \E c \in Callers : SelectCh(c)
    \/ \E c \in Callers : SelectTimer(c)

Spec == Init /\ [][Next]_vars

\* the steps the library's goroutines take once started: every disjunct of
\* Next but the user function (which need not return) and the callers' new
\* calls (which need not be made)
LibraryNext ==
    \/ WaitGroupDone
    \/ \E p \in {Runner} \cup Callers :
        FinishCheck(p) \/ FinishWriteState(p) \/ FinishWriteResult(p) \/ FinishWriteErr(p)
    \/ \E c \in Callers :
        WaitGroupWait(c) \/ ReadResult(c) \/ ReadErr(c) \/ SelectCh(c) \/ SelectTimer(c)
    \/ \E h \in Helpers : HelperWait(h) \/ HelperWaitGroupWait(h) \/ CloseCh(h)

\* the Go scheduler keeps running runnable goroutines and timers fire: some
\* library step is taken as long as one is possible
FairSpec == Init /\ [][Next]_vars /\ WF_vars(LibraryNext)

\* ================================================================ claims
CancelArgs == <<StateCanceled, NilVal, ErrCanceled>>
TimeoutArgs == <<StateCanceled, NilVal, ErrTimeout>>
WaitOps == {"Wait", "WaitWithTimeout"}

\* caller c has returned from a call of operation o
Returned(c, o) == pc[c] = "idle" /\ op[c] = o

\* caller c has returned from a Cancel whose check found the handle Running
CancelFoundRunning(c) == Returned(c, "Cancel") /\ path[c] \in {"cancel", "canceled"}

\* C1: no transition leaves a terminal state: once state is Completed,
\* Failed or Canceled it never changes again (at most one finish takes effect).
C1_NoTransitionOutOfTerminal ==
    [][IsTerminalState(state) => state' = state]_vars

\* C2: every Wait/WaitWithTimeout call that has returned on a started handle
\* returned the (result, err) arguments of the winning finish call, so any
\* two calls returned the same pair.
C2_AllWaitsReturnWinner ==
    \A c \in Callers :
        (ctor = "Start" /\ pc[c] = "idle" /\ op[c] \in WaitOps)
            => ret[c] = <<winner[2], winner[3]>>

\* C3 (as claimed): a Cancel call that found the handle Running has left it
\* Canceled with ErrCanceled and a nil result when it returns.
C3_CancelLeavesCanceled ==
    \A c \in Callers :
        CancelFoundRunning(c)
            => <<state, result, err>> = CancelArgs

\* C3 (amended): a Cancel call that found the handle Running has invoked the
\* cancellation trigger and has left the handle in a terminal state when it
\* returns.
C3_CancelLeavesTerminal ==
    \A c \in Callers :
        CancelFoundRunning(c)
            => IsTerminalState(state) /\ ctxDone

\* C3 witness: a Cancel that found the handle Running has returned, and the
\* handle carries the runner's outcome instead of the cancellation.
C3_Witness ==
    \E c \in Callers :
        /\ CancelFoundRunning(c) /\ path[c] = "cancel"
        /\ <<state, result, err>> = <<StateCompleted, DoneVal, NilErr>>

\* C4: a WaitWithTimeout call begun after an earlier wait timed out, and
\* whose own deadline has not elapsed, does not return the timeout error (it
\* returns the function's real result).
C4_LaterWaitSeesRealResult ==
    \A c \in Callers :
        (Returned(c, "WaitWithTimeout") /\ pre[c] /\ path[c] \notin {"timer", "timeout"})
            => ret[c][2] # ErrTimeout

\* C5: a Wait/WaitWithTimeout call begun on a handle that a deadline commit
\* finalized (Canceled, ErrTimeout) returns on the fast path with ErrTimeout.
C5_TimeoutIsFrozen ==
    \A c \in Callers :
        (pc[c] = "idle" /\ op[c] \in WaitOps /\ pre[c])
            => path[c] = "fast" /\ ret[c] = <<NilVal, ErrTimeout>>

\* C6: a WaitWithTimeout call whose deadline branch found the handle still
\* Running, no other finish having passed its check before, has left the
\* handle Canceled with ErrTimeout and has returned (nil, ErrTimeout).
C6_DeadlineReturnsTimeout ==
    \A c \in Callers :
        (Returned(c, "WaitWithTimeout") /\ path[c] = "timeout" /\ winner = TimeoutArgs)
            => ret[c] = <<NilVal, ErrTimeout>>

\* C7: a caller blocked in Wait on a handle that has become terminal is
\* eventually released, whether or not the user function returns.
C7_BlockedWaitReleased ==
    \A c \in Callers :
        (pc[c] = "wg_wait" /\ IsTerminalState(state)) ~> (pc[c] = "idle")

\* C8: under fair scheduling, once the user function has returned or
\* panicked the handle becomes terminal and every caller gets out of the call
\* it is in (it is eventually back between calls, on a terminal handle).
C8_AllWaitsReturn ==
    \A c \in Callers :
        (taskOut # NoOut) ~> (IsTerminalState(state) /\ pc[c] = "idle")

\* C8 witness: the user function has returned while one caller is blocked in
\* Wait and another is in the select of WaitWithTimeout.
C8_Witness ==
    /\ taskOut # NoOut
    /\ pc[Runner] = "exited"
    /\ \E c, d \in Callers : pc[c] = "wg_wait" /\ pc[d] = "select" /\ op[c] = "Wait"

\* C9: when the user function panicked and the runner's finish was the first
\* to pass the check, the handle ends Failed with the panic error and a nil
\* result, the wait group is released and nothing crashed.
C9_PanicEndsFailed ==
    (/\ taskOut = <<"panic", None, None>>
     /\ winner = <<StateFailed, NilVal, ErrPanic>>
     /\ pc[Runner] = "exited"
     /\ \A c \in Callers : pc[c] = "idle")
        => /\ <<state, result, err>> = <<StateFailed, NilVal, ErrPanic>>
           /\ wgCount = 0
           /\ ~crashed

\* C10: when the user function returned (v, nil pointer error) and the
\* runner's finish was the first to pass the check, the handle ends Completed
\* and every Wait that has returned returned (v, nil).
C10_NilPointerErrorCompletes ==
    (/\ taskOut = <<"return", DoneVal, NilPtrErr>>
     /\ winner = <<StateCompleted, DoneVal, NilErr>>)
        => /\ (pc[Runner] = "exited" /\ \A c \in Callers : pc[c] = "idle")
                => state = StateCompleted
           /\ \A c \in Callers : Returned(c, "Wait") => ret[c] = <<DoneVal, NilErr>>

\* C11: when the user function returned (v, e), the first finish to pass its
\* check was the runner's and every goroutine is done, the handle is
\* Completed with (v, nil) for an absent e (nil interface, nil pointer) and
\* Failed with (v, e), e verbatim, for a present e of any representation.
C11_ReturnedErrorVerbatim ==
    LET v == taskOut[2]
        e == taskOut[3]
    IN  (/\ taskOut[1] = "return"
         /\ winner \notin {NoArgs, CancelArgs, TimeoutArgs}
         /\ pc[Runner] = "exited"
         /\ \A c \in Callers : pc[c] = "idle")
            => IF e \in {NilErr, NilPtrErr}
               THEN <<state, result, err>> = <<StateCompleted, v, NilErr>>
               ELSE <<state, result, err>> = <<StateFailed, v, e>>

\* C12: a Cancel call begun on a terminal handle (Completed, Failed, or
\* Canceled by Cancel or by a deadline) changes nothing: the step leaves
\* state, result and err as they are, does not invoke the cancellation
\* trigger, and the call has returned.
C12_CancelOnTerminalIsNoop ==
    [][\A c \in Callers :
          (/\ IsTerminalState(state)
           /\ pc[c] = "idle"
           /\ op'[c] = "Cancel"
           /\ (pc'[c] # "idle" \/ calls'[c] # calls[c]))
              => /\ UNCHANGED <<state, result, err>>
                 /\ UNCHANGED <<ctxDone, cancelCalls>>
                 /\ pc'[c] = "idle"
                 /\ path'[c] = "noop"]_vars

\* a Cancel has returned as a no-op on a handle a deadline left Canceled,
\* while the user function still runs and its context was never cancelled
C12_Witness ==
    /\ ctor = "Start"
    /\ \E c \in Callers : Returned(c, "Cancel") /\ path[c] = "noop"
    /\ state = StateCanceled
    /\ pc[Runner] = "task"
    /\ ~ctxDone
    /\ cancelCalls = 0

\* C13: on a handle built by NewCompletedTask no call blocks or dereferences
\* the nil cancelFunc or nil waitGroup: every call in progress is on a fast
\* path with its next step enabled, no goroutine is spawned, the handle stays
\* Completed with (nil, nil), and every Wait/WaitWithTimeout that returned
\* returned (nil, nil).
C13_CompletedTaskNeverBlocks ==
    ctor = "NewCompletedTask" =>
        /\ ~crashed
        /\ <<state, result, err>> = <<StateCompleted, NilVal, NilErr>>
        /\ cancelCalls = 0
        /\ \A h \in Helpers : pc[h] = "off"
        /\ \A c \in Callers :
              /\ pc[c] \in {"idle", "ret_res", "ret_err"}
              /\ pc[c] # "idle" => ENABLED (ReadResult(c) \/ ReadErr(c))
              /\ (pc[c] = "idle" /\ op[c] \in WaitOps) => ret[c] = <<NilVal, NilErr>>

\* on a NewCompletedTask handle a Wait or WaitWithTimeout and a Cancel have
\* both returned
C13_Witness ==
    /\ ctor = "NewCompletedTask"
    /\ \E c, d \in Callers :
          /\ pc[c] = "idle" /\ op[c] \in WaitOps /\ ret[c] = <<NilVal, NilErr>>
          /\ Returned(d, "Cancel")

\* C14: in every reachable state, which State, Wait and WaitWithTimeout can
\* observe at any moment, state Completed implies that err is nil and state
\* Failed or Canceled implies that err is not nil.
C14_StateAgreesWithErr ==
    /\ state = StateCompleted => err = NilErr
    /\ state \in {StateFailed, StateCanceled} => err # NilErr

\* C15 (as stated): over the whole life of a handle created by Start the
\* cancellation trigger cancelFunc is invoked at most once, across all
\* Cancel, Wait and WaitWithTimeout calls of all callers.
C15_TriggerAtMostOnce ==
    ctor = "Start" => cancelCalls <= 1

\* C15 (amended): cancelFunc is invoked at most once by each Cancel, Wait or
\* WaitWithTimeout call, so never more often than calls were begun, and the
\* context is cancelled exactly when it was invoked at least once.
C15_TriggerAtMostOncePerCall ==
    ctor = "Start" =>
        /\ cancelCalls <= calls["c1"] + calls["c2"]
                            + Cardinality({c \in Callers : pc[c] # "idle"})
        /\ ctxDone <=> cancelCalls > 0

\* a Cancel that found the handle Running and a blocking Wait have both
\* returned, and each invoked cancelFunc
C15_Witness ==
    /\ ctor = "Start"
    /\ \E c, d \in Callers :
          /\ CancelFoundRunning(c)
          /\ Returned(d, "Wait") /\ path[d] = "slow"
    /\ cancelCalls = 2

\* C16: an elapsed deadline of WaitWithTimeout does not cancel the context of
\* the user function: while the user function is still running, the only
\* step that cancels the context is a Cancel call that found the handle
\* non-terminal; neither the deadline branch nor the goroutine the wait
\* spawned does.
C16_TimeoutDoesNotCancelContext ==
    [][(pc[Runner] = "task" /\ ~ctxDone /\ ctxDone')
          => \E c \in Callers :
                /\ pc[c] = "idle"
                /\ pc'[c] # "idle"
                /\ op'[c] = "Cancel"
                /\ path'[c] = "cancel"]_vars

\* a WaitWithTimeout has returned ErrTimeout, its goroutine still waits for
\* the runner, the user function still runs and its context is not cancelled
C16_Witness ==
    /\ pc[Runner] = "task"
    /\ ~ctxDone
    /\ \E c \in Callers :
          /\ Returned(c, "WaitWithTimeout")
          /\ path[c] = "timeout"
          /\ ret[c] = <<NilVal, ErrTimeout>>
          /\ pc[HelperOf(c)] = "wg_wait"

\* C17: Cancel never waits on the runner goroutine.  A caller inside Cancel
\* has cancelled the handle's context and is inside finish, where its next
\* step can be taken whatever the runner does; and each of its steps moves
\* it strictly forward through finish's four steps, so the call returns
\* after at most four steps of its own.
C17_CancelNeverBlocks ==
    /\ [](\A c \in Callers :
            (op[c] = "Cancel" /\ pc[c] # "idle") =>
                /\ ctxDone
                /\ pc[c] \in {"fin_check", "fin_state", "fin_result", "fin_err"}
                /\ ENABLED (FinishCheck(c) \/ FinishWriteState(c)
                            \/ FinishWriteResult(c) \/ FinishWriteErr(c)))
    /\ [][LET Remaining(l) == CASE l = "fin_check" -> 4
                              [] l = "fin_state" -> 3
                              [] l = "fin_result" -> 2
                              [] l = "fin_err" -> 1
                              [] l = "idle" -> 0
                              [] OTHER -> 5
          IN  \A c \in Callers :
                (op[c] = "Cancel" /\ pc[c] # "idle" /\ pc'[c] # pc[c])
                    => Remaining(pc'[c]) < Remaining(pc[c])]_vars

\* a Cancel that found the handle Running has returned with the context
\* cancelled while the user function has still not returned
C17_Witness ==
    /\ pc[Runner] = "task"
    /\ taskOut = NoOut
    /\ ctxDone
    /\ state = StateCanceled
    /\ \E c \in Callers : CancelFoundRunning(c)

\* C18: if the runner's finish was the first to pass its check, no
\* WaitWithTimeout call that returns afterwards returns ErrTimeout, even when
\* its deadline fired (that finish is a no-op), and once every goroutine is
\* done the handle carries the runner's outcome: no deadline and no Cancel
\* changed it.
C18_RunnerFirstBeatsDeadline ==
    (winner \notin {NoArgs, CancelArgs, TimeoutArgs} /\ pc[Runner] = "exited")
        => /\ \A c \in Callers :
                Returned(c, "WaitWithTimeout") => ret[c][2] # ErrTimeout
           /\ (\A c \in Callers : pc[c] = "idle")
                    => <<state, result, err>> = winner

\* C19: whenever a Wait call on a handle created by Start has returned, the
\* handle's derived context has been released (cancelFunc was invoked),
\* also when the Wait returned at once because the handle was already
\* terminal.
C19_WaitReleasesContext ==
    (ctor = "Start" /\ \E c \in Callers : Returned(c, "Wait"))
        => (ctxDone /\ cancelCalls > 0)

\* C20: a goroutine spawned by WaitWithTimeout terminates if and only if the
\* handle was terminal when it entered Wait or the user function has
\* returned or panicked.  Only if: it gets past its Wait only on Wait's fast
\* path or once the runner has exited, so while the user function does not
\* return it stays blocked, terminal handle or not.  If: a goroutine past its
\* Wait terminates, and once the user function has ended every spawned
\* goroutine terminates.
C20_HelperEndsIffRunnerEnds ==
    /\ [][\A h \in Helpers :
            /\ (pc'[h] = "close_ch" /\ pc[h] # "close_ch")
                  => \/ pc[h] = "spawned" /\ IsTerminalState(state)
                     \/ pc[h] = "wg_wait" /\ pc[Runner] = "exited" /\ taskOut # NoOut
            /\ (pc'[h] = "off" /\ pc[h] # "off") => pc[h] = "close_ch"]_vars
    /\ \A h \in Helpers :
          (pc[h] = "close_ch" \/ taskOut # NoOut) ~> (pc[h] = "off")

\* after a timed-out WaitWithTimeout has returned, its goroutine is blocked
\* in Wait on a terminal handle whose user function has not returned
C20_Witness ==
    /\ taskOut = NoOut
    /\ IsTerminalState(state)
    /\ \E h \in Helpers :
          /\ pc[h] = "wg_wait"
          /\ Returned(CallerOf(h), "WaitWithTimeout")
          /\ path[CallerOf(h)] = "timeout"

====
